---- MODULE Spec2Model ----
(***************************************************************************)
(* The two sweep drivers of ns3-wifi-propagation:                          *)
(*   wifi-propagation-comparison.cc  (distance sweep, five loss models)    *)
(*   wifi-runtime-comparison.cc      (runtime sweep, Friis, 1..200 s)      *)
(* The ns-3 engine, the flow monitor and the file system are the           *)
(* environment: the frames a run receives, the flow entries a run reports  *)
(* and whether the output path can be opened are chosen                    *)
(* nondeterministically; the path is either openable for a whole execution *)
(* or for none of it.                                                      *)
(*                                                                         *)
(* Numbers.  averageRSS is a double that is only ever halved after adding  *)
(* an integer-valued signal level, so it is kept exactly as a dyadic       *)
(* rational [num, exp] = num / 2^exp in lowest terms.  A throughput is     *)
(* kept as the fraction [num, den] in lowest terms.  A number written to   *)
(* the file is kept as the decimal [mant, scale] = mant / 10^scale that    *)
(* operator<< writes.                                                      *)
(*                                                                         *)
(* Output file.  outputFile.rows is the coordinate column of the           *)
(* measurement rows of the file behind the driver's std::ofstream, in file *)
(* order; lastRows holds, with all their columns, the rows the most recent *)
(* run appended.                                                           *)
(***************************************************************************)
EXTENDS Integers, Sequences, FiniteSets

\* ------------------------------------------------------------------ bounds
\* Frames the receiver's PHY reports in one run, at most.
MaxFrames == 2
\* Flow entries GetFlowStats() returns for one run, at most.
MaxFlows == 2
\* The first FreeRuns runs of a sweep, and the run at the sweep's limit
\* coordinate, may report any number 0..MaxFlows of flow entries; the other runs
\* report exactly one.
FreeRuns == 1
\* The distance sweep is followed up to this distance (a model without forced
\* stop never ends by itself while bytes keep arriving).
MaxDistance == 502

\* Signal levels (dBm) a frame may carry, and byte counts a flow may report.
SignalSet == {-60, -40}
RxBytesSet == {0, 14500000}

\* --------------------------------------------------------- program constants
FRIIS == 1
FIXED_RSS == 2
THREE_LOG_DISTANCE == 3
TWO_RAY_GROUND == 4
NAKAGAMI == 5
modelsToBeExamined == <<FRIIS, FIXED_RSS, THREE_LOG_DISTANCE, TWO_RAY_GROUND, NAKAGAMI>>

\* const double simulationTime = 50 of the distance sweep.
DistSimulationTime == 50
\* d >= 500 of the forced stop.
ForcedStopDistance == 500
\* simulationTime <= 200 of the runtime sweep.
MaxRuntime == 200
\* serverApp.Start(Seconds(1.0)), clientApp.Start(Seconds(2.0)).
ServerStartTime == 1
ClientStartTime == 2
\* const double distance = 10 of the runtime sweep.
RtDistance == 10

VARIABLES
    driver,             \* "distance" | "runtime": which program runs
    pc,                 \* "start" | "loop" | "sim" | "exit"
    modelIdx,           \* index into modelsToBeExamined (distance sweep)
    coord,              \* d (distance sweep) or simulationTime (runtime sweep)
    connectionPossible,
    averageRSS,         \* the global double, [num, exp]
    pathWritable,       \* environment: can the output path be opened
    outputFile,         \* [header, rows] of the file behind outputFile
    scenario,           \* times and distance the run in progress was built with
    signals,            \* signal levels PhyTrace was called with in the current run
    stats,              \* rxBytes of the entries of the current run's GetFlowStats()
    lastRows,           \* rows appended by the current run
    noBytesAt           \* first distance of this sweep whose run received no byte, or 0

vars == <<driver, pc, modelIdx, coord, connectionPossible, averageRSS, pathWritable,
          outputFile, scenario, signals, stats, lastRows, noBytesAt>>

\* ------------------------------------------------------------------ numbers
RECURSIVE Pow2(_)
Pow2(n) == IF n = 0 THEN 1 ELSE 2 * Pow2(n - 1)

RECURSIVE Reduce(_, _)
Reduce(num, exp) ==
    IF exp > 0 /\ num % 2 = 0 THEN Reduce(num \div 2, exp - 1)
    ELSE [num |-> num, exp |-> exp]

Zero == [num |-> 0, exp |-> 0]

RECURSIVE GCD(_, _)
GCD(a, b) == IF b = 0 THEN a ELSE GCD(b, a % b)

\* Faulty variant of HalfSum: the estimate is the latest sample.
LastSample(signal, avg) == [num |-> signal, exp |-> 0]

\* averageRSS = (signalNoise.signal + averageRSS) / 2.
HalfSum(signal, avg) == Reduce(signal * Pow2(avg.exp) + avg.num, avg.exp + 1)

\* Faulty variant of Throughput: the distance sweep's fixed duration divides in
\* both drivers.
ThroughputFixedDuration(rxBytes, simulationTime) ==
    LET n == rxBytes * 8
        d == 50 * 1024
        g == GCD(n, d)
    IN  [num |-> n \div g, den |-> d \div g]

\* it->second.rxBytes * 8.0 / (simulationTime) / 1024
Throughput(rxBytes, simulationTime) ==
    LET n == rxBytes * 8
        d == simulationTime * 1024
        g == GCD(n, d)
    IN  [num |-> n \div g, den |-> d \div g]

\* ---------------------------------------------------- operator<<(double)
\* A std::ofstream in its default state writes a double with six significant
\* digits (%g): the value is rounded to the nearest decimal of six significant
\* digits, an exact tie to the even one, and trailing zeros are dropped.  The
\* written number is kept as [mant, scale] = mant / 10^scale.  Every value
\* written here is below 10^6 in magnitude, so scale >= 0.
RECURSIVE Pow10(_)
Pow10(n) == IF n = 0 THEN 1 ELSE 10 * Pow10(n - 1)

Abs(x) == IF x < 0 THEN -x ELSE x

\* The k with 10^5 <= n * 10^k / d < 10^6, for 0 < n / d < 10^6.
RECURSIVE Scale6(_, _, _)
Scale6(n, d, k) == IF n * Pow10(k) < 100000 * d THEN Scale6(n, d, k + 1) ELSE k

RECURSIVE StripZeros(_, _)
StripZeros(mant, scale) ==
    IF scale > 0 /\ mant % 10 = 0 THEN StripZeros(mant \div 10, scale - 1)
    ELSE [mant |-> mant, scale |-> scale]

Format6(num, den) ==
    IF num = 0 THEN [mant |-> 0, scale |-> 0]
    ELSE LET n == Abs(num)
             k == Scale6(n, den, 0)
             q == (n * Pow10(k)) \div den
             r == (n * Pow10(k)) % den
             m == IF 2 * r > den \/ (2 * r = den /\ q % 2 = 1) THEN q + 1 ELSE q
             t == StripZeros(m, k)
         IN  [mant |-> IF num < 0 THEN -t.mant ELSE t.mant, scale |-> t.scale]

\* ------------------------------------------------------------- environment
SeqsOf(S, lo, hi) == UNION {[1..n -> S] : n \in lo..hi}

\* What GetFlowStats() may hold after the run at coordinate c of a sweep whose
\* limit coordinate is limit.
FlowStatsChoices(c, limit) ==
    IF c <= FreeRuns \/ c = limit
    THEN SeqsOf(RxBytesSet, 0, MaxFlows)
    ELSE SeqsOf(RxBytesSet, 1, 1)

RECURSIVE TotalBytes(_)
TotalBytes(st) == IF st = <<>> THEN 0 ELSE Head(st) + TotalBytes(Tail(st))

\* RunMeasurement.receivedAnyBytes of the run outcome.
ReceivedAnyBytes(st) == TotalBytes(st) > 0

\* ------------------------------------------------------------ driver parts
NoFile == [header |-> FALSE, rows |-> <<>>]
NoScenario == [distance |-> 0, serverStart |-> 0, serverStop |-> 0,
               clientStart |-> 0, clientStop |-> 0, stopTime |-> 0]

model == modelsToBeExamined[modelIdx]

\* outputFile.open(outputFileName); outputFile << header; outputFile.close();
\* an ofstream whose open failed ignores the insertion.
WriteHeader == IF pathWritable THEN [header |-> TRUE, rows |-> <<>>] ELSE outputFile

\* Faulty variant of ResetRSS: the reset is missing.
KeepRSS == averageRSS

\* averageRSS = 0; at the top of the loop body.
ResetRSS == Zero

\* The scenario of one run: positions, server and client start and stop times,
\* Simulator::Stop.
BuildScenario(distance, simulationTime) ==
    [distance |-> distance,
     serverStart |-> ServerStartTime, serverStop |-> simulationTime,
     clientStart |-> ClientStartTime, clientStop |-> simulationTime,
     stopTime |-> simulationTime]

\* The rows the loop over the flow entries writes: one per entry, each with the
\* loop coordinate, the global averageRSS and that entry's throughput, as
\* operator<< writes them (the coordinate is a whole number below 10^6, which
\* is written as it is).
RowsFor(c, simulationTime, st) ==
    [i \in 1..Len(st) |->
        LET throughput == Throughput(st[i], simulationTime)
        IN  [coord |-> c,
             rss |-> Format6(averageRSS.num, Pow2(averageRSS.exp)),
             throughput |-> Format6(throughput.num, throughput.den)]]

\* outputFile.open(outputFileName, std::ios_base::app); outputFile << row; close();
\* once per flow entry.
AppendedRows(rows) == IF pathWritable THEN rows ELSE <<>>

RECURSIVE Coords(_)
Coords(rows) == IF rows = <<>> THEN <<>> ELSE <<Head(rows).coord>> \o Coords(Tail(rows))

\* if (it->second.rxBytes == 0) connectionPossible = false; over all entries.
HasZeroEntry(st) == \E i \in 1..Len(st) : st[i] = 0

\* Faulty variant of ForcedStop: d > 500 instead of d >= 500.
ForcedStopOffByOne(d, m) == d > 500 /\ (m = NAKAGAMI \/ m = FIXED_RSS)

\* Faulty variant of ForcedStop: the model test is missing.
ForcedStopAnyModel(d, m) == d >= 500

\* if (d >= 500 && (model == NAKAGAMI || model == FIXED_RSS))
ForcedStop(d, m) == d >= ForcedStopDistance /\ (m = NAKAGAMI \/ m = FIXED_RSS)

\* ------------------------------------------------------------------- Init
Init ==
    /\ driver \in {"distance", "runtime"}
    /\ pc = "start"
    /\ modelIdx = 1
    /\ coord = 1
    /\ connectionPossible = TRUE
    /\ averageRSS = Zero
    /\ pathWritable \in BOOLEAN
    /\ outputFile = NoFile
    /\ scenario = NoScenario
    /\ signals = <<>>
    /\ stats = <<>>
    /\ lastRows = <<>>
    /\ noBytesAt = 0

\* ------------------------------------------------- the frame-received callback
\* PhyTrace, called by the engine inside Simulator::Run() for a received frame.
PhyTrace ==
    /\ pc = "sim"
    /\ Len(signals) < MaxFrames
    /\ \E s \in SignalSet :
          /\ averageRSS' = HalfSum(s, averageRSS)
          /\ signals' = Append(signals, s)
    /\ UNCHANGED <<driver, pc, modelIdx, coord, connectionPossible, pathWritable,
                   outputFile, scenario, stats, lastRows, noBytesAt>>

\* --------------------------------------------------------- distance sweep
\* Top of the model loop body: the header is written, connectionPossible = true,
\* d = 1.
DistOpen ==
    /\ driver = "distance" /\ pc = "start"
    /\ outputFile' = WriteHeader
    /\ connectionPossible' = TRUE
    /\ coord' = 1
    /\ pc' = "loop"
    /\ UNCHANGED <<driver, modelIdx, averageRSS, pathWritable, scenario, signals,
                   stats, lastRows, noBytesAt>>

\* for (...; connectionPossible; ...): the loop body up to Simulator::Run().
DistBeginRun ==
    /\ driver = "distance" /\ pc = "loop"
    /\ connectionPossible
    /\ coord <= MaxDistance
    /\ averageRSS' = ResetRSS
    /\ scenario' = BuildScenario(coord, DistSimulationTime)
    /\ signals' = <<>>
    /\ stats' = <<>>
    /\ lastRows' = <<>>
    /\ pc' = "sim"
    /\ UNCHANGED <<driver, modelIdx, coord, connectionPossible, pathWritable,
                   outputFile, noBytesAt>>

\* Simulator::Run() returns: the flow entries are read, one row is written per
\* entry, the stop conditions are evaluated, Simulator::Destroy(), d += 1.
DistEndRun ==
    /\ driver = "distance" /\ pc = "sim"
    /\ \E st \in FlowStatsChoices(coord, ForcedStopDistance) :
          LET rows == AppendedRows(RowsFor(coord, DistSimulationTime, st))
          IN  /\ stats' = st
              /\ lastRows' = rows
              /\ outputFile' = [outputFile EXCEPT !.rows = @ \o Coords(rows)]
              /\ connectionPossible' =
                    IF HasZeroEntry(st) \/ ForcedStop(coord, model)
                    THEN FALSE ELSE connectionPossible
              /\ noBytesAt' =
                    IF noBytesAt = 0 /\ ~ReceivedAnyBytes(st) THEN coord ELSE noBytesAt
    /\ scenario' = NoScenario
    /\ coord' = coord + 1
    /\ pc' = "loop"
    /\ UNCHANGED <<driver, modelIdx, averageRSS, pathWritable, signals>>

\* The distance loop ends: "End of Simulation with model", then the next model
\* of modelsToBeExamined, or the end of main.
DistEndSweep ==
    /\ driver = "distance" /\ pc = "loop"
    /\ ~connectionPossible
    /\ IF modelIdx < Len(modelsToBeExamined)
       THEN /\ modelIdx' = modelIdx + 1
            /\ pc' = "start"
            /\ outputFile' = NoFile
            /\ stats' = <<>>
            /\ lastRows' = <<>>
            /\ signals' = <<>>
            /\ noBytesAt' = 0
       ELSE /\ pc' = "exit"
            /\ UNCHANGED <<modelIdx, outputFile, stats, lastRows, signals, noBytesAt>>
    /\ UNCHANGED <<driver, coord, connectionPossible, averageRSS, pathWritable, scenario>>

\* ---------------------------------------------------------- runtime sweep
\* Before the loop: the header is written, connectionPossible = true,
\* simulationTime = 1.
RtOpen ==
    /\ driver = "runtime" /\ pc = "start"
    /\ outputFile' = WriteHeader
    /\ connectionPossible' = TRUE
    /\ coord' = 1
    /\ pc' = "loop"
    /\ UNCHANGED <<driver, modelIdx, averageRSS, pathWritable, scenario, signals,
                   stats, lastRows, noBytesAt>>

\* for (...; simulationTime <= 200; ...): the loop body up to Simulator::Run().
RtBeginRun ==
    /\ driver = "runtime" /\ pc = "loop"
    /\ coord <= MaxRuntime
    /\ averageRSS' = ResetRSS
    /\ scenario' = BuildScenario(RtDistance, coord)
    /\ signals' = <<>>
    /\ stats' = <<>>
    /\ lastRows' = <<>>
    /\ pc' = "sim"
    /\ UNCHANGED <<driver, modelIdx, coord, connectionPossible, pathWritable,
                   outputFile, noBytesAt>>

\* Simulator::Run() returns: one row per flow entry, connectionPossible is
\* tracked, Simulator::Destroy(), simulationTime += 1.
RtEndRun ==
    /\ driver = "runtime" /\ pc = "sim"
    /\ \E st \in FlowStatsChoices(coord, MaxRuntime) :
          LET rows == AppendedRows(RowsFor(coord, coord, st))
          IN  /\ stats' = st
              /\ lastRows' = rows
              /\ outputFile' = [outputFile EXCEPT !.rows = @ \o Coords(rows)]
              /\ connectionPossible' =
                    IF HasZeroEntry(st) THEN FALSE ELSE connectionPossible
    /\ scenario' = NoScenario
    /\ coord' = coord + 1
    /\ pc' = "loop"
    /\ UNCHANGED <<driver, modelIdx, averageRSS, pathWritable, signals, noBytesAt>>

\* The runtime loop ends and main returns.
RtExit ==
    /\ driver = "runtime" /\ pc = "loop"
    /\ ~(coord <= MaxRuntime)
    /\ pc' = "exit"
    /\ UNCHANGED <<driver, modelIdx, coord, connectionPossible, averageRSS, pathWritable,
                   outputFile, scenario, signals, stats, lastRows, noBytesAt>>

Next ==
    \/ PhyTrace
    \/ DistOpen
    \/ DistBeginRun
    \/ DistEndRun
    \/ DistEndSweep
    \/ RtOpen
    \/ RtBeginRun
    \/ RtEndRun
    \/ RtExit

Spec == Init /\ [][Next]_vars

\* ================================================================== claims
IsDistance == driver = "distance"
IsRuntime == driver = "runtime"
\* A run of the current sweep has completed and no later run has begun: signals,
\* stats and lastRows are that run's.
RunDone == pc = "loop" /\ coord > 1
UpTo(n) == [i \in 1..n |-> i]
CoordSet == {outputFile.rows[i] : i \in DOMAIN outputFile.rows}

RECURSIVE WeightedSum(_)
WeightedSum(seq) == IF seq = <<>> THEN 0 ELSE Head(seq) + 2 * WeightedSum(Tail(seq))

\* C1 (as claimed): in the distance sweep, once the first run that received no
\* byte has happened at distance D, the model's file holds rows for exactly the
\* coordinates 1..D and no further run of that sweep is performed.  Stated for a
\* path that can be opened.
C1_SweepTermination ==
    (IsDistance /\ pathWritable /\ pc \in {"loop", "sim"} /\ noBytesAt # 0)
        => /\ CoordSet = 1..noBytesAt
           /\ pc = "loop"
           /\ coord = noBytesAt + 1
           /\ ~connectionPossible

\* C2: in the distance sweep for FixedRSS and Nakagami no row with a coordinate
\* greater than 500 is in the file and no run at a distance greater than 500 is
\* begun, whatever the flow statistics report.
C2_ForcedStop ==
    (IsDistance /\ pc \in {"loop", "sim"} /\ model \in {FIXED_RSS, NAKAGAMI})
        => /\ \A i \in DOMAIN outputFile.rows : outputFile.rows[i] <= 500
           /\ (pc = "sim" => coord <= 500)

\* C2 witness: the FixedRSS run at distance 500 received bytes in every flow,
\* wrote its row, and the sweep stopped.
C2_Witness ==
    /\ IsDistance /\ model = FIXED_RSS /\ pc = "loop" /\ coord = 501
    /\ pathWritable /\ stats # <<>> /\ ~HasZeroEntry(stats)
    /\ ~connectionPossible
    /\ 500 \in CoordSet

\* C3 (as claimed): when the runtime sweep has finished, its file holds exactly
\* 200 measurement rows, one for each coordinate 1..200.  Stated for a path that
\* can be opened.
C3_RuntimeCompleteness ==
    (IsRuntime /\ pathWritable /\ pc = "exit") => outputFile.rows = UpTo(200)

\* C4: in both drivers averageRSS is 0 when a run's simulation starts, before
\* any PhyTrace call, and every row of a run that received no frame records an
\* RSS of exactly 0.
C4_ResetBeforeRun ==
    /\ (pc = "sim" /\ signals = <<>>) => averageRSS = Zero
    /\ (RunDone /\ signals = <<>>)
          => \A i \in DOMAIN lastRows : lastRows[i].rss = [mant |-> 0, scale |-> 0]

\* C4 witness: a run later than the second of a sweep received no frame and
\* wrote a row with RSS 0.
C4_Witness ==
    /\ RunDone /\ coord > 3 /\ signals = <<>>
    /\ lastRows # <<>> /\ lastRows[1].rss = [mant |-> 0, scale |-> 0]

\* C5: during and after a run, averageRSS is e_n of e0 = 0, e_i = (s_i + e_(i-1))/2
\* over the signal levels s1..sn of that run and depends on nothing else, that
\* is e_n * 2^n = s1 + 2*s2 + ... + 2^(n-1)*sn.
C5_FilterRecurrence ==
    (pc = "sim" \/ RunDone)
        => averageRSS.num * Pow2(Len(signals)) = WeightedSum(signals) * Pow2(averageRSS.exp)

\* C5 witness: in a run later than the first of a sweep the signal levels
\* [-60, -60] gave -45, and a row records it.
C5_Witness ==
    /\ RunDone /\ coord > 2 /\ signals = <<-60, -60>>
    /\ averageRSS = [num |-> -45, exp |-> 0]
    /\ lastRows # <<>> /\ lastRows[1].rss = [mant |-> -45, scale |-> 0]

\* C6 (as claimed): every completed run appended exactly one measurement row,
\* whatever flow entries the run reported.  Stated for a path that can be opened.
C6_OneRowPerRun ==
    (RunDone /\ pathWritable) => Len(lastRows) = 1

\* C7 (as claimed): if the output file cannot be opened, the sweep aborts: no
\* run is performed after the failed open of the header.
C7_IoFailureFatal ==
    ~pathWritable => pc # "sim"

\* C8 (as claimed): the throughput of every measurement row equals
\* rxBytes * 8 / duration / 1024 of the flow entry it reports, with duration 50
\* in the distance sweep and the sweep coordinate in the runtime sweep.
C8_RowThroughputExact ==
    RunDone =>
        \A i \in DOMAIN lastRows :
            LET duration == IF IsDistance THEN 50 ELSE lastRows[i].coord
                g == GCD(stats[i] * 8, duration * 1024)
                n == (stats[i] * 8) \div g
                d == (duration * 1024) \div g
                t == lastRows[i].throughput
            IN  t.mant * d = n * Pow10(t.scale)

\* C8 (amended): the throughput of every measurement row is
\* rxBytes * 8 / duration / 1024 of the flow entry it reports, with duration 50
\* in the distance sweep and the sweep coordinate in the runtime sweep, written
\* with six significant digits: the row's number has at most six significant
\* digits and differs from that value by at most half a unit of the sixth.
C8_RowThroughputSixDigits ==
    RunDone =>
        \A i \in DOMAIN lastRows :
            LET duration == IF IsDistance THEN 50 ELSE lastRows[i].coord
                g == GCD(stats[i] * 8, duration * 1024)
                n == (stats[i] * 8) \div g
                d == (duration * 1024) \div g
                t == lastRows[i].throughput
            IN  /\ t.mant >= 0 /\ t.mant < 1000000
                /\ 2 * Abs(t.mant * d - n * Pow10(t.scale))
                      <= (n * Pow10(t.scale)) \div 100000

\* C8 witness: rxBytes = 14500000 over 50 s, 2265.625, is written as 2265.62.
C8_Witness ==
    /\ IsDistance /\ RunDone /\ lastRows # <<>>
    /\ stats[1] = 14500000
    /\ lastRows[1].throughput = [mant |-> 226562, scale |-> 2]

\* C9 (as claimed): in every run the traffic generator's start time (2 s) is
\* strictly earlier than its stop time and than the simulation stop time.
C9_GeneratorActive ==
    pc = "sim" => /\ scenario.clientStart < scenario.clientStop
                  /\ scenario.clientStart < scenario.stopTime

\* C10: in the distance sweep for Friis, ThreeLogDistance and TwoRayGround, after
\* a run the sweep is stopped exactly when the run's flow statistics hold an
\* entry with rxBytes = 0, at every distance; a run with no flow entry writes no
\* row and does not stop the sweep.
C10_StopOnlyOnZeroEntry ==
    (IsDistance /\ RunDone /\ model \in {FRIIS, THREE_LOG_DISTANCE, TWO_RAY_GROUND})
        => /\ (~connectionPossible) <=> HasZeroEntry(stats)
           /\ stats = <<>> => (lastRows = <<>> /\ connectionPossible)

\* C10 witness: the Friis sweep has passed distance 500 and 501 and goes on.
C10_Witness ==
    /\ IsDistance /\ model = FRIIS /\ pc = "loop"
    /\ coord = 502 /\ connectionPossible /\ pathWritable
    /\ 501 \in CoordSet

====
